---- MODULE Spec2Model ----
(***************************************************************************)
(* scripts/bump_versions.py: bump the version of selected packages.        *)
(*                                                                         *)
(* Text (file contents, versions, rendered templates) is a sequence of     *)
(* tokens.  A token is one character of a version ("0", "1"), a blank, a   *)
(* line end, or the whole literal text of a template on one side of its    *)
(* {version} slot.  str.replace, "in" and str.strip work on these          *)
(* sequences exactly as Python's work on characters.                       *)
(***************************************************************************)
EXTENDS Integers, Sequences, FiniteSets, TLC

VARIABLES
    files,        \* the working tree: path -> text, CHANGELOG included
    versions,     \* the constants imported from the versions module (l.20-21)
    args,         \* the parsed command line (l.169)
    pc,           \* where the process is: "main", "update_versions",
                  \* "change_version", "replace_version", "exit", "error"
    pkg,          \* update_versions' position in PACKAGES.values(); 0 outside it
    self,         \* key of the PackageVersionInfo whose method is running
    new_version,  \* change_version's new_version parameter
    dry,          \* change_version's dry parameter
    loc,          \* change_version's position in self.locations
    error,        \* the uncaught exception that ended the process, or ""
    trace,        \* what this process has done so far: input, calls, file I/O
    files0,       \* the working tree when this process started
    entry,        \* the working tree when change_version was last entered
    history       \* the earlier process on the same tree, if there was one

vars == <<files, versions, args, pc, pkg, self, new_version, dry, loc, error,
          trace, files0, entry, history>>

----------------------------------------------------------------------------
(* Bounds of the model *)

MaxVerLen == 2

Digit == {"0", "1"}

\* version strings: numerals over Digit without a leading zero
Versions ==
    {v \in UNION {[1..n -> Digit] : n \in 1..MaxVerLen} : Len(v) = 1 \/ v[1] # "0"}

\* the values the versions module may hold for the four imported constants
VersionsModules ==
    { [JUPYTER_LSP_VERSION |-> <<"1">>, JUPYTERLAB_LSP_VERSION |-> <<"1", "0">>,
       JUPYTERLAB_VERSION |-> <<"1">>, REQUIRED_JUPYTERLAB |-> <<"1", "0">>],
      [JUPYTER_LSP_VERSION |-> <<"1", "0">>, JUPYTERLAB_LSP_VERSION |-> <<"1">>,
       JUPYTERLAB_VERSION |-> <<"1", "0">>, REQUIRED_JUPYTERLAB |-> <<"1">>] }

\* how the text on disk differs from what the registry expects: the constant
\* stands between `lead` and `trail`, and each line is there `copies` times
Drifts ==
    { [lead |-> << >>, trail |-> << >>, copies |-> 1],
      [lead |-> << >>, trail |-> <<"0">>, copies |-> 1],
      [lead |-> <<"0">>, trail |-> << >>, copies |-> 1],
      [lead |-> << >>, trail |-> << >>, copies |-> 2] }

\* the versions the changelog on disk may list
ChangelogListings == { <<<<"1", "0">>>>, <<<<"1">>, <<"1", "1">>>> }

----------------------------------------------------------------------------
(* Text operations *)

\* sub occurs in s at position i
At(s, i, sub) ==
    /\ i >= 1
    /\ i + Len(sub) - 1 <= Len(s)
    /\ SubSeq(s, i, i + Len(sub) - 1) = sub

\* Python: sub in s
Contains(s, sub) == \E i \in 1..(Len(s) + 1) : At(s, i, sub)

\* number of positions of s where sub occurs
Count(s, sub) == Cardinality({i \in 1..(Len(s) + 1) : At(s, i, sub)})

\* Python: s.replace(old, new) for a non-empty old: every non-overlapping
\* occurrence, leftmost first
RECURSIVE Replace(_, _, _)
Replace(s, old, new) ==
    IF Len(s) < Len(old) THEN s
    ELSE IF At(s, 1, old)
         THEN new \o Replace(SubSeq(s, Len(old) + 1, Len(s)), old, new)
         ELSE <<s[1]>> \o Replace(Tail(s), old, new)

Whitespace == {" ", "\n"}

RECURSIVE lstrip(_)
lstrip(s) == IF s # << >> /\ s[1] \in Whitespace THEN lstrip(Tail(s)) ELSE s

RECURSIVE rstrip(_)
rstrip(s) ==
    IF s # << >> /\ s[Len(s)] \in Whitespace
    THEN rstrip(SubSeq(s, 1, Len(s) - 1)) ELSE s

\* Python: s.strip()
Strip(s) == rstrip(lstrip(s))

\* Python: template.format(version=version); a template is the literal text
\* before and after its {version} slot
Format(template, version) == template.pre \o version \o template.post

----------------------------------------------------------------------------
(* The registry *)

CHANGELOG == "CHANGELOG.md"
PIPELINE == "PIPE_FILE"
META_PACKAGE == "packages/metapackage/package.json"
JUPYTERLAB_LSP_PACKAGE == "packages/jupyterlab-lsp/package.json"
README == "README.md"
VERSION_PY == "python_packages/jupyter_lsp/jupyter_lsp/_version.py"
ENVIRONMENT_YML == "binder/environment.yml"

NPM_PACKAGE_VERSION_TEMPLATE == [pre |-> <<"\"version\": \"">>, post |-> <<"\"">>]

VersionLocation(path, template) == [path |-> path, template |-> template]

PackageVersionInfo(name, current_version, locations) ==
    [name |-> name, current_version |-> current_version, locations |-> locations]

\* PACKAGES.values() iterates in insertion order
Keys == <<"jupyter-lsp", "jupyterlab-lsp", "jupyterlab:exact", "jupyterlab:range">>

KeySet == {Keys[i] : i \in 1..Len(Keys)}

RegistryOf(v) ==
    [key \in KeySet |->
        CASE key = "jupyter-lsp" ->
               PackageVersionInfo("jupyter-lsp (Python backend)",
                   v.JUPYTER_LSP_VERSION,
                   << VersionLocation(VERSION_PY,
                          [pre |-> <<"__version__ = \"">>, post |-> <<"\"">>]),
                      VersionLocation(PIPELINE,
                          [pre |-> <<"PY_JLSP_VERSION: ">>, post |-> << >>]) >>)
          [] key = "jupyterlab-lsp" ->
               PackageVersionInfo("jupyterlab-lsp (frontend package)",
                   v.JUPYTERLAB_LSP_VERSION,
                   << VersionLocation(JUPYTERLAB_LSP_PACKAGE,
                          NPM_PACKAGE_VERSION_TEMPLATE),
                      VersionLocation(PIPELINE,
                          [pre |-> <<"JS_JLLSP_VERSION: ">>, post |-> << >>]),
                      VersionLocation(META_PACKAGE,
                          NPM_PACKAGE_VERSION_TEMPLATE) >>)
          [] key = "jupyterlab:exact" ->
               PackageVersionInfo("JupyterLab - exact",
                   v.JUPYTERLAB_VERSION,
                   << VersionLocation(JUPYTERLAB_LSP_PACKAGE,
                          [pre |-> <<"\"@jupyterlab/application\": \"~">>,
                           post |-> <<"\"">>]) >>)
          [] key = "jupyterlab:range" ->
               PackageVersionInfo("JupyterLab - range",
                   v.REQUIRED_JUPYTERLAB,
                   << VersionLocation(ENVIRONMENT_YML,
                          [pre |-> <<"jupyterlab ">>, post |-> << >>]),
                      VersionLocation(README,
                          [pre |-> <<"jupyterlab ">>, post |-> << >>]),
                      VersionLocation(README,
                          [pre |-> <<"JupyterLab ">>, post |-> << >>]) >>)]

\* the registry with the pipeline template of jupyterlab-lsp mistyped as that of
\* jupyter-lsp
PackagesOf_same_variable(v) ==
    [RegistryOf(v) EXCEPT
        !["jupyterlab-lsp"].locations[2].template.pre = <<"PY_JLSP_VERSION: ">>]

\* l.90-142, built with the imported constants v
PackagesOf(v) == RegistryOf(v)

PACKAGES == PackagesOf(versions)

LocationPaths ==
    {VERSION_PY, PIPELINE, JUPYTERLAB_LSP_PACKAGE, META_PACKAGE, ENVIRONMENT_YML,
     README}

Paths == LocationPaths \cup {CHANGELOG}

----------------------------------------------------------------------------
(* The working tree the process starts in *)

RECURSIVE Concat(_)
Concat(ss) == IF ss = << >> THEN << >> ELSE Head(ss) \o Concat(Tail(ss))

\* the lines of `path`: one per location of the registry that names the path,
\* in registry order, holding the template rendered with the drifted version
RECURSIVE LinesOf(_, _, _, _, _)
LinesOf(v, drift, path, k, i) ==
    IF k > Len(Keys) THEN << >>
    ELSE LET p == PackagesOf(v)[Keys[k]] IN
         IF i > Len(p.locations) THEN LinesOf(v, drift, path, k + 1, 1)
         ELSE LET l == p.locations[i]
                  rest == LinesOf(v, drift, path, k, i + 1)
              IN  IF l.path = path
                  THEN Concat([c \in 1..drift.copies |->
                                  Format(l.template,
                                         drift.lead \o p.current_version
                                                    \o drift.trail)
                                  \o <<"\n">>])
                       \o rest
                  ELSE rest

ChangelogText(listing) ==
    Concat([i \in 1..Len(listing) |-> <<"## ">> \o listing[i] \o <<"\n">>])

WorkingTree(v, drift, listing) ==
    [path \in Paths |->
        IF path = CHANGELOG THEN ChangelogText(listing)
        ELSE LinesOf(v, drift, path, 1, 1)]

----------------------------------------------------------------------------
(* The process *)

Event(op, arg, text) == [op |-> op, arg |-> arg, text |-> text, dry |-> FALSE]

CallEvent(key, version, d) ==
    [op |-> "call", arg |-> key, text |-> version, dry |-> d]

NoArgs == [dry |-> FALSE, package |-> "", version |-> << >>]

\* what argparse can hand over: --package and --version default to None, which
\* the script only ever tests for truth, as it does the empty string
Arguments ==
    [dry : BOOLEAN, package : {""} \cup KeySet \cup {"jupyterlab"},
     version : {<< >>} \cup Versions]

PackageArguments == {a \in Arguments : a.package \in KeySet /\ a.version # << >>}

\* what input() can return
Responses ==
    {<< >>, <<" ">>} \cup Versions \cup {<<" ">> \o v \o <<" ">> : v \in Versions}

Init ==
    /\ versions \in VersionsModules
    /\ \E drift \in Drifts, listing \in ChangelogListings :
          files = WorkingTree(versions, drift, listing)
    /\ files0 = files
    /\ entry = files
    /\ args = NoArgs
    /\ pc = "main"
    /\ pkg = 0
    /\ self = ""
    /\ new_version = << >>
    /\ dry = FALSE
    /\ loc = 0
    /\ error = ""
    /\ trace = << >>
    /\ history = << >>

\* an uncaught exception ends the process
Raise(exc) ==
    /\ pc' = "error"
    /\ error' = exc
    /\ trace' = Append(trace, Event("raise", exc, << >>))

\* package.change_version(version, dry=d) is entered
Call(key, version, d, tr) ==
    /\ pc' = "change_version"
    /\ self' = key
    /\ new_version' = version
    /\ dry' = d
    /\ loc' = 0
    /\ entry' = files
    /\ trace' = Append(tr, CallEvent(key, version, d))

\* Main looking the key up with a default: an unknown key falls through to the
\* interactive mode
Main_lookup_with_default(a) ==
    /\ pc = "main"
    /\ args' = a
    /\ IF (a.package # "" /\ a.version = << >>)
          \/ (a.version # << >> /\ a.package = "")
       THEN /\ Raise("AssertionError")
            /\ UNCHANGED <<pkg, self, new_version, dry, loc, entry>>
       ELSE IF a.package \in DOMAIN PACKAGES
       THEN /\ Call(a.package, a.version, a.dry, trace)
            /\ UNCHANGED <<pkg, error>>
       ELSE /\ pc' = "update_versions"
            /\ pkg' = 1
            /\ UNCHANGED <<self, new_version, dry, loc, entry, error, trace>>
    /\ UNCHANGED <<files, versions, files0, history>>

\* l.169-181
Main(a) ==
    /\ pc = "main"
    /\ args' = a
    /\ IF (a.package # "" /\ a.version = << >>)
          \/ (a.version # << >> /\ a.package = "")
       THEN /\ Raise("AssertionError")
            /\ UNCHANGED <<pkg, self, new_version, dry, loc, entry>>
       ELSE IF a.package # ""
       THEN IF a.package \notin DOMAIN PACKAGES
            THEN /\ Raise("KeyError")
                 /\ UNCHANGED <<pkg, self, new_version, dry, loc, entry>>
            ELSE /\ Call(a.package, a.version, a.dry, trace)
                 /\ UNCHANGED <<pkg, error>>
       ELSE /\ pc' = "update_versions"
            /\ pkg' = 1
            /\ UNCHANGED <<self, new_version, dry, loc, entry, error, trace>>
    /\ UNCHANGED <<files, versions, files0, history>>

\* the for loop of update_versions moves on, or the script ends
Return(tr) ==
    /\ trace' = tr
    /\ IF pkg # 0 /\ pkg < Len(Keys)
       THEN pc' = "update_versions" /\ pkg' = pkg + 1
       ELSE pc' = "exit" /\ pkg' = pkg

\* maybe_change_version without the strip() of the answer
maybe_change_version_unstripped(response) ==
    /\ pc = "update_versions"
    /\ LET key == Keys[pkg]
           version == response
           tr == Append(trace, Event("input", key, response))
       IN  IF version # << >>
           THEN /\ Call(key, version, args.dry, tr)
                /\ UNCHANGED <<pkg, error>>
           ELSE /\ Return(tr)
                /\ UNCHANGED <<self, new_version, dry, loc, entry, error>>
    /\ UNCHANGED <<files, versions, args, files0, history>>

\* l.145-147 and l.43-47: one turn of the loop of update_versions
maybe_change_version(response) ==
    /\ pc = "update_versions"
    /\ LET key == Keys[pkg]
           version == Strip(response)
           tr == Append(trace, Event("input", key, response))
       IN  IF version # << >>
           THEN /\ Call(key, version, args.dry, tr)
                /\ UNCHANGED <<pkg, error>>
           ELSE /\ Return(tr)
                /\ UNCHANGED <<self, new_version, dry, loc, entry, error>>
    /\ UNCHANGED <<files, versions, args, files0, history>>

\* the guard with its test inverted
AbsentFromChangelog_inverted(version, changelog) == Contains(changelog, version)

\* l.52: new_version not in changelog
AbsentFromChangelog(version, changelog) == ~Contains(changelog, version)

\* change_version reporting a missing changelog entry and returning, so that
\* update_versions goes on with the next package
change_version_returns ==
    /\ pc = "change_version"
    /\ LET changelog == files[CHANGELOG]
           tr == Append(trace, Event("read", CHANGELOG, changelog))
       IN  IF AbsentFromChangelog(new_version, changelog)
           THEN /\ Return(Append(tr, Event("raise", "Exception", << >>)))
                /\ UNCHANGED <<loc, error>>
           ELSE /\ pc' = "replace_version"
                /\ loc' = 1
                /\ trace' = tr
                /\ UNCHANGED <<pkg, error>>
    /\ UNCHANGED <<files, versions, args, self, new_version, dry, files0,
                   entry, history>>

\* l.51-58: the changelog guard
change_version ==
    /\ pc = "change_version"
    /\ LET changelog == files[CHANGELOG]
           tr == Append(trace, Event("read", CHANGELOG, changelog))
       IN  IF AbsentFromChangelog(new_version, changelog)
           THEN /\ pc' = "error"
                /\ error' = "Exception"
                /\ trace' = Append(tr, Event("raise", "Exception", << >>))
                /\ loc' = loc
           ELSE /\ pc' = "replace_version"
                /\ loc' = 1
                /\ trace' = tr
                /\ error' = error
    /\ UNCHANGED <<files, versions, args, pkg, self, new_version, dry, files0,
                   entry, history>>

\* NewContent with the two rendered texts passed to replace in the wrong order
NewContent_swapped(old_content, template, old, new) ==
    Replace(old_content, Format(template, new), Format(template, old))

\* NewContent that adds the rendered new version when there is nothing to
\* replace
NewContent_upsert(old_content, template, old, new) ==
    IF Contains(old_content, Format(template, old))
    THEN Replace(old_content, Format(template, old), Format(template, new))
    ELSE old_content \o Format(template, new)

\* l.71-74
NewContent(old_content, template, old, new) ==
    Replace(old_content, Format(template, old), Format(template, new))

\* the write done whatever the dry flag says
Store_always(fs, path, new_content, d) == [fs EXCEPT ![path] = new_content]

\* l.75-87: the tree after replace_version: untouched when dry, else
\* path.write_text(new_content)
Store(fs, path, new_content, d) ==
    IF d THEN fs ELSE [fs EXCEPT ![path] = new_content]

\* the diff taken with its two texts in the wrong order
Output_swapped(path, old_content, new_content, d) ==
    IF d THEN Event("diff", path, old_content)
    ELSE Event("write", path, new_content)

\* l.75-87: what replace_version puts out: when dry the printed diff, which
\* shows new_content as the proposed update of the old_content just read, else
\* the write of new_content
Output(path, old_content, new_content, d) ==
    IF d THEN Event("diff", path, new_content)
    ELSE Event("write", path, new_content)

\* l.60-67 and l.70-87: one turn of the loop of change_version
replace_version ==
    /\ pc = "replace_version"
    /\ LET package == PACKAGES[self]
           location == package.locations[loc]
           path == location.path
           old_content == files[path]
           new_content == NewContent(old_content, location.template,
                                     package.current_version, new_version)
           tr == trace \o << Event("read", path, old_content),
                             Output(path, old_content, new_content, dry) >>
       IN  /\ files' = Store(files, path, new_content, dry)
           /\ IF loc < Len(package.locations)
              THEN /\ loc' = loc + 1
                   /\ trace' = tr
                   /\ UNCHANGED <<pc, pkg>>
              ELSE /\ Return(tr)
                   /\ loc' = loc
    /\ UNCHANGED <<versions, args, self, new_version, dry, error, files0, entry,
                   history>>

\* the script is started once more in the tree the first process left
Rerun ==
    /\ pc \in {"exit", "error"}
    /\ history = << >>
    /\ history' = <<[args |-> args, pc |-> pc, error |-> error, trace |-> trace,
                     before |-> files0, after |-> files]>>
    /\ files0' = files
    /\ entry' = files
    /\ args' = NoArgs
    /\ pc' = "main"
    /\ pkg' = 0
    /\ self' = ""
    /\ new_version' = << >>
    /\ dry' = FALSE
    /\ loc' = 0
    /\ error' = ""
    /\ trace' = << >>
    /\ UNCHANGED <<files, versions>>

\* one run of the script, with any command line and any answers
Next ==
    \/ \E a \in Arguments : Main(a)
    \/ \E response \in Responses : maybe_change_version(response)
    \/ change_version
    \/ replace_version

Spec == Init /\ [][Next]_vars

\* two runs of the script in single-package mode, one after the other
NextTwice ==
    \/ \E a \in PackageArguments : Main(a)
    \/ change_version
    \/ replace_version
    \/ Rerun

SpecTwice == Init /\ [][NextTwice]_vars

----------------------------------------------------------------------------
(* Vocabulary of the properties *)

Locations(key) == PACKAGES[key].locations

Current(key) == PACKAGES[key].current_version

\* the template of location i of package `key`, rendered with version v
Rendered(key, i, v) == Format(Locations(key)[i].template, v)

PathOf(key, i) == Locations(key)[i].path

Last(tr) == tr[Len(tr)]

\* change_version has processed its last location and returned
JustReturned ==
    /\ pc \in {"exit", "update_versions"}
    /\ trace # << >>
    /\ Last(trace).op \in {"write", "diff"}

\* every location file of the package held, when change_version was entered,
\* the location's template rendered with the current version exactly once
WellFormedAtEntry ==
    \A i \in 1..Len(Locations(self)) :
        Count(entry[PathOf(self, i)], Rendered(self, i, Current(self))) = 1

\* a non-dry change_version to a version other than the current one has just
\* completed on well-formed files
BumpCompleted ==
    /\ JustReturned
    /\ ~dry
    /\ new_version # Current(self)
    /\ WellFormedAtEntry

----------------------------------------------------------------------------
(* C1 *)

\* C1 as claimed: after a completed non-dry change_version(V) on files that
\* each held the rendered current version exactly once, every location file
\* contains the template rendered with V and none contains it rendered with
\* the current version.
C1_Original ==
    BumpCompleted =>
        \A i \in 1..Len(Locations(self)) :
            /\ Contains(files[PathOf(self, i)], Rendered(self, i, new_version))
            /\ ~Contains(files[PathOf(self, i)], Rendered(self, i, Current(self)))

\* C1 amended: after such a change every location file contains the template
\* rendered with V, and the template rendered with the current version occurs
\* in it only where the template rendered with V begins too, which needs a
\* template that ends with its version slot.
C1_Amended ==
    BumpCompleted =>
        \A i \in 1..Len(Locations(self)) :
            LET text == files[PathOf(self, i)] IN
            /\ Contains(text, Rendered(self, i, new_version))
            /\ \A j \in 1..Len(text) :
                  At(text, j, Rendered(self, i, Current(self))) =>
                      /\ At(text, j, Rendered(self, i, new_version))
                      /\ Locations(self)[i].template.post = << >>

\* a bump of the package with two locations in README.md has completed and
\* changed the tree
C1_Witness ==
    /\ BumpCompleted
    /\ self = "jupyterlab:range"
    /\ files[README] # entry[README]
    /\ files[ENVIRONMENT_YML] # entry[ENVIRONMENT_YML]

----------------------------------------------------------------------------
(* C2 *)

\* a run whose --dry flag is set
DryRun == pc # "main" /\ args.dry

\* C2: with --dry, whatever the command line and the answers, every file of
\* the tree, the changelog included, keeps the content it had when the process
\* started.
C2_DryNeverMutates == DryRun => files = files0

\* a dry interactive run has ended after proposing a real change
C2_Witness ==
    /\ DryRun
    /\ pc = "exit"
    /\ pkg = Len(Keys)
    /\ \E i \in 2..Len(trace) :
          /\ trace[i].op = "diff"
          /\ trace[i - 1].op = "read"
          /\ trace[i].text # trace[i - 1].text

----------------------------------------------------------------------------
(* C3 *)

\* C3: change_version entered with a version that is no substring of the
\* changelog ends, dry or not, in the guard failure: it has read the changelog
\* and nothing else, written nothing, and left every file as it was.
C3_GuardFailure ==
    [][ (pc = "change_version" /\ ~Contains(files[CHANGELOG], new_version)) =>
            /\ pc' = "error"
            /\ error' = "Exception"
            /\ files' = files
            /\ trace' = trace \o << Event("read", CHANGELOG, files[CHANGELOG]),
                                   Event("raise", "Exception", << >>) >> ]_vars

\* the guard has failed in a non-dry single-package run
C3_Witness ==
    /\ pc = "error"
    /\ error = "Exception"
    /\ args.package \in KeySet
    /\ ~args.dry
    /\ ~Contains(files[CHANGELOG], new_version)
    /\ Len(trace) = 3

----------------------------------------------------------------------------
(* C4 *)

\* single-package mode with a key the registry does not hold
UnknownKeyGiven == pc # "main" /\ args.version # << >> /\ args.package \notin KeySet \cup {""}

\* C4: in single-package mode a key that is no key of the registry ends the
\* run in the lookup failure with change_version never entered: no changelog
\* read, no location file read or written.
C4_LookupFailure ==
    UnknownKeyGiven =>
        /\ pc = "error"
        /\ error = "KeyError"
        /\ trace = <<Event("raise", "KeyError", << >>)>>
        /\ files = files0

\* the lookup has failed
C4_Witness == UnknownKeyGiven /\ pc = "error" /\ error = "KeyError" /\ ~args.dry

----------------------------------------------------------------------------
(* C5 *)

\* replace_version is about to process a location whose rendered current
\* version does not occur in the file
NoMatchAhead ==
    /\ pc = "replace_version"
    /\ ~Contains(files[PathOf(self, loc)], Rendered(self, loc, Current(self)))

\* C5: at a location whose template rendered with the current version does not
\* occur in the file, replace_version raises nothing and leaves the content of
\* the file as it is (non-dry: it writes the identical content back), and
\* change_version goes on with the next location.
C5_SilentNoOp ==
    [][ NoMatchAhead =>
            /\ files' = files
            /\ pc' # "error"
            /\ error' = error
            /\ Last(trace').arg = PathOf(self, loc)
            /\ Last(trace').text = files[PathOf(self, loc)]
            /\ Last(trace').op = IF dry THEN "diff" ELSE "write"
            /\ loc < Len(Locations(self)) =>
                  pc' = "replace_version" /\ loc' = loc + 1 ]_vars

\* a non-dry change_version has passed a location without a match and stands
\* at the next one, which does match
C5_Witness ==
    /\ pc = "replace_version"
    /\ ~dry
    /\ loc >= 2
    /\ Last(trace).op = "write"
    /\ Last(trace).text = trace[Len(trace) - 1].text
    /\ ~Contains(trace[Len(trace) - 1].text, Rendered(self, loc - 1, Current(self)))
    /\ Contains(files[PathOf(self, loc)], Rendered(self, loc, Current(self)))

----------------------------------------------------------------------------
(* C6 *)

Interactive == pc # "main" /\ args.package = "" /\ args.version = << >>

IsInput(e) == e.op = "input"

\* the events of tr after position i up to the next input
RECURSIVE Turn(_, _)
Turn(tr, i) ==
    IF i >= Len(tr) \/ tr[i + 1].op = "input" THEN << >>
    ELSE <<tr[i + 1]>> \o Turn(tr, i + 1)

\* turn is one whole change_version(version, d) of package `key`, and, when
\* `whole`, one that returned
IsOneCall(turn, key, version, d, whole) ==
    /\ turn # << >>
    /\ turn[1] = CallEvent(key, version, d)
    /\ \A j \in 2..Len(turn) : turn[j].op # "call"
    /\ whole =>
          /\ Len(turn) = 2 + 2 * Len(Locations(key))
          /\ Last(turn).op \in {"write", "diff"}

\* C6: the interactive mode prompts the packages one at a time in registry
\* order, each at most once; an answer that is empty once stripped skips the
\* package with no changelog read and no file read or written; any other
\* answer has change_version invoked exactly once, with the stripped answer
\* and the run's dry flag, and has it return before the next prompt.
C6_InteractiveOrder ==
    Interactive =>
        LET inputs == SelectSeq(trace, IsInput) IN
        /\ Len(inputs) <= Len(Keys)
        /\ \A n \in 1..Len(inputs) : inputs[n].arg = Keys[n]
        /\ trace # << >> => trace[1].op = "input"
        /\ \A i \in 1..Len(trace) :
              trace[i].op = "input" =>
                  LET turn == Turn(trace, i)
                      followed == i + Len(turn) < Len(trace)
                  IN  IF Strip(trace[i].text) = << >>
                      THEN turn = << >>
                      ELSE IsOneCall(turn, trace[i].arg, Strip(trace[i].text),
                                     args.dry, followed)

\* an interactive run has prompted all four packages, skipped one on a blank
\* answer and changed one on a padded answer
C6_Witness ==
    /\ Interactive
    /\ pc = "exit"
    /\ Len(SelectSeq(trace, IsInput)) = Len(Keys)
    /\ \E i \in 1..Len(trace) :
          trace[i].op = "input" /\ trace[i].text = <<" ">>
    /\ \E i \in 1..(Len(trace) - 1) :
          /\ trace[i].op = "input"
          /\ trace[i].text # Strip(trace[i].text)
          /\ trace[i + 1].op = "call"

----------------------------------------------------------------------------
(* C8 *)

\* the tree that results from fs by the writes of tr, in order
RECURSIVE ApplyWrites(_, _)
ApplyWrites(fs, tr) ==
    IF tr = << >> THEN fs
    ELSE ApplyWrites(IF Head(tr).op = "write"
                     THEN [fs EXCEPT ![Head(tr).arg] = Head(tr).text] ELSE fs,
                     Tail(tr))

\* C8: in a non-dry interactive run, a guard failure at the k-th package halts
\* the process there: nothing runs after it, packages after the k-th are
\* neither prompted nor modified, no file of the k-th package is changed, and
\* every write made for the packages before it stays in place.
C8_HaltOnGuardFailure ==
    [][ /\ pc # "error"
        /\ (Interactive /\ ~args.dry /\ pc = "change_version"
            /\ ~Contains(files[CHANGELOG], new_version)) =>
              /\ pc' = "error"
              /\ pkg' = pkg
              /\ self' = Keys[pkg]
              /\ files' = entry
              /\ files' = ApplyWrites(files0, trace')
              /\ LET inputs == SelectSeq(trace', IsInput) IN
                 /\ Len(inputs) = pkg
                 /\ \A n \in 1..pkg : inputs[n].arg = Keys[n] ]_vars

\* the guard has failed at a later package of a non-dry interactive run, after
\* an earlier package was changed
C8_Witness ==
    /\ Interactive
    /\ ~args.dry
    /\ pc = "error"
    /\ error = "Exception"
    /\ pkg >= 2
    /\ files # files0

----------------------------------------------------------------------------
(* Two runs on the same tree *)

First == history[1]

\* both runs have ended, and the second was given the package and the version
\* of the first
SameChangeTwice ==
    /\ history # << >>
    /\ pc \in {"exit", "error"}
    /\ args.package = First.args.package
    /\ args.version = First.args.version

IsDiff(e) == e.op = "diff"

IsWrite(e) == e.op = "write"

\* l.60-67 with dry=False as a function of the tree: the tree after the
\* locations i.. of package `key` were processed for new version v
RECURSIVE ChangeFrom(_, _, _, _)
ChangeFrom(fs, key, v, i) ==
    IF i > Len(Locations(key)) THEN fs
    ELSE LET l == Locations(key)[i]
             new_content == NewContent(fs[l.path], l.template, Current(key), v)
         IN  ChangeFrom(Store(fs, l.path, new_content, FALSE), key, v, i + 1)

ChangeVersion(fs, key, v) == ChangeFrom(fs, key, v, 1)

----------------------------------------------------------------------------
(* C7 *)

\* a non-dry change has succeeded and was then applied a second time
Reapplied == SameChangeTwice /\ First.pc = "exit" /\ ~First.args.dry /\ ~args.dry

\* C7 as claimed: applying the same successful non-dry change a second time
\* raises nothing and leaves every location file as the first application
\* left it.
C7_Original == Reapplied => pc = "exit" /\ files = First.after

\* the first application left, in the file at `path`, no location template of
\* the package rendered with the current version
NothingLeftToMatch(path) ==
    \A i \in 1..Len(Locations(self)) :
        PathOf(self, i) = path =>
            ~Contains(First.after[path], Rendered(self, i, Current(self)))

\* every location of the package in the file at `path` has a template with
\* text after its version slot
ClosedTemplates(path) ==
    \A i \in 1..Len(Locations(self)) :
        PathOf(self, i) = path => Locations(self)[i].template.post # << >>

\* C7 amended: the second application raises nothing and leaves a file as the
\* first left it whenever the first left in it no location template rendered
\* with the current version; that is so for every location whose template has
\* text after the slot, and files that are no location of the package stay
\* untouched.
C7_Amended ==
    Reapplied =>
        /\ pc = "exit"
        /\ \A path \in Paths :
              /\ NothingLeftToMatch(path) => files[path] = First.after[path]
              /\ ClosedTemplates(path) => files[path] = First.after[path]

\* a change that altered every location file of jupyterlab-lsp was applied a
\* second time
C7_Witness ==
    /\ Reapplied
    /\ pc = "exit"
    /\ self = "jupyterlab-lsp"
    /\ \A i \in 1..Len(Locations(self)) :
          First.after[PathOf(self, i)] # First.before[PathOf(self, i)]
    /\ \A path \in Paths : NothingLeftToMatch(path)

----------------------------------------------------------------------------
(* C9 *)

\* a dry run has completed, and then a non-dry run with the same package and
\* version, from the same tree
DryThenReal ==
    /\ SameChangeTwice
    /\ First.pc = "exit"
    /\ pc = "exit"
    /\ First.args.dry
    /\ ~args.dry
    /\ First.before = files0

Proposed == SelectSeq(First.trace, IsDiff)

Stored == SelectSeq(trace, IsWrite)

\* C9 as claimed: at every location the content the dry run proposes equals
\* the content the non-dry run writes at that location's step.
C9_Original ==
    DryThenReal =>
        /\ Len(Proposed) = Len(Stored)
        /\ \A n \in 1..Len(Stored) :
              Proposed[n].arg = Stored[n].arg /\ Proposed[n].text = Stored[n].text

\* no earlier location of the package changed the file of location n
FileUntouchedBefore(n) ==
    \A m \in 1..(n - 1) :
        Stored[m].arg = Stored[n].arg => Stored[m].text = files0[Stored[m].arg]

\* C9 amended: the dry run proposes, location by location and for the same
\* files, the content the non-dry run writes, at every location whose file no
\* earlier location of the package has changed; a later location of an
\* already changed file (the second README.md location of jupyterlab:range)
\* is proposed from the file as it is on disk, without the earlier change.
C9_Amended ==
    DryThenReal =>
        /\ Len(Proposed) = Len(Stored)
        /\ \A n \in 1..Len(Stored) :
              /\ Proposed[n].arg = Stored[n].arg
              /\ FileUntouchedBefore(n) => Proposed[n].text = Stored[n].text
              /\ ~FileUntouchedBefore(n) =>
                    Proposed[n].text =
                        NewContent(files0[Stored[n].arg],
                                   Locations(self)[n].template, Current(self),
                                   new_version)

\* a dry run and then a non-dry run of a change that alters all three location
\* files of jupyterlab-lsp
C9_Witness ==
    /\ DryThenReal
    /\ self = "jupyterlab-lsp"
    /\ \A n \in 1..Len(Stored) : Stored[n].text # files0[Stored[n].arg]

----------------------------------------------------------------------------
(* C10 *)

SharePath(a, b) ==
    \E i \in 1..Len(Locations(a)), j \in 1..Len(Locations(b)) :
        PathOf(a, i) = PathOf(b, j)

\* two non-dry changes of two packages that share a location file have
\* completed, one after the other
TwoPackagesChanged ==
    /\ history # << >>
    /\ First.pc = "exit"
    /\ pc = "exit"
    /\ ~First.args.dry
    /\ ~args.dry
    /\ First.args.package # args.package
    /\ SharePath(First.args.package, args.package)

\* C10: for two packages A and B that share a location file, changing A and
\* then B leaves every file as changing B and then A does, and neither change
\* alters the text the other's templates match or produce.
C10_OrderIndependent ==
    TwoPackagesChanged =>
        LET a == First.args.package
            va == First.args.version
            b == args.package
            vb == args.version
            bOnly == ChangeVersion(First.before, b, vb)
        IN  /\ files = ChangeVersion(bOnly, a, va)
            /\ \A path \in Paths :
                  /\ \A j \in 1..Len(Locations(b)) :
                        /\ Count(First.after[path], Rendered(b, j, Current(b)))
                              = Count(First.before[path], Rendered(b, j, Current(b)))
                        /\ Count(files[path], Rendered(b, j, vb))
                              = Count(bOnly[path], Rendered(b, j, vb))
                  /\ \A i \in 1..Len(Locations(a)) :
                        /\ Count(files[path], Rendered(a, i, va))
                              = Count(First.after[path], Rendered(a, i, va))
                        /\ Count(bOnly[path], Rendered(a, i, Current(a)))
                              = Count(First.before[path], Rendered(a, i, Current(a)))

\* jupyter-lsp and then jupyterlab-lsp were changed, each altering the
\* pipeline file they share
C10_Witness ==
    /\ TwoPackagesChanged
    /\ First.args.package = "jupyter-lsp"
    /\ args.package = "jupyterlab-lsp"
    /\ First.after[PIPELINE] # First.before[PIPELINE]
    /\ files[PIPELINE] # First.after[PIPELINE]

====
